---- MODULE Spec2Model ----
(***************************************************************************)
(* AWSS: breakbeam trigger, capture-and-classify pipeline, worker loop and *)
(* the lock-protected status record (src/final.py, src/web/app.py).        *)
(*                                                                         *)
(* Numbers.  Times are integers in milliseconds.  A Python float that is a *)
(* ratio is kept exact: a match percentage is 100*count/n, the mean value  *)
(* is sum/n, and a confidence is a numerator over the denominator 120*n,   *)
(* where n is the number of pixels of the region of interest.              *)
(* None is modelled by the empty sequence for a dict-valued field, by 0    *)
(* for a timestamp or a path, and by the string "None" for a message.      *)
(***************************************************************************)
EXTENDS Integers, Sequences, FiniteSets

\* ------------------------------------------------------------ bounds
MaxStarts == 2      \* engines constructed (successful start requests)
MaxBags == 2        \* pipeline invocations explored in one behaviour
MaxDepth == 1       \* nested noise restarts of wait_for_bag explored
CooldownBags == 1   \* pipeline invocations explored where progress is checked
ImportBags == 1     \* pipeline invocations explored from the state after import
StatusBags == 1     \* pipeline invocations explored with a client polling the status
ImgH == 4           \* image rows of the classifier inputs
ImgW == 10          \* image columns of the classifier inputs

\* ------------------------------------------------------------ program constants
MAX_HISTORY == 20
DEBOUNCE_MS == 80
CLEAR_POLL_MS == 10
DEBOUNCE_POLL_MS == 5
SETTLE_MS == 1000
IR_RETRY_MS == 200
COOLDOWN_TIMEOUT_MS == 2000
COOLDOWN_POLL_MS == 50
COOLDOWN_DELAY_MS == 500
BLUE_MIN_PCT == 30
GREEN_MIN_PCT == 20
LOW_V == 120
CONF_CAP == 95

Min(a, b) == IF a < b THEN a ELSE b
Max(a, b) == IF a > b THEN a ELSE b

\* ------------------------------------------------------------ HSVBagClassifier
\* dict iteration order of hsv_ranges
ColorOrder == <<"blue", "green", "black">>

hsv_ranges ==
  [blue  |-> [lower |-> <<15, 50, 170>>, upper |-> <<50, 255, 255>>],
   green |-> [lower |-> <<51, 40, 120>>, upper |-> <<90, 255, 255>>],
   black |-> [lower |-> <<0, 0, 0>>,     upper |-> <<179, 255, 100>>]]

categories == [black |-> "GARBAGE", blue |-> "RECYCLING", green |-> "COMPOST"]

\* cv2.inRange on one pixel: inclusive on the three channels
inRange(p, lower, upper) == \A i \in 1..3 : lower[i] <= p[i] /\ p[i] <= upper[i]

\* hsv_image[h // 4 : 3 * h // 4, w // 4 : 3 * w // 4], row-major
RoiOf(hsv_image) ==
  LET h == Len(hsv_image)
      w == Len(hsv_image[1])
      r0 == h \div 4
      r1 == (3 * h) \div 4
      c0 == w \div 4
      c1 == (3 * w) \div 4
      nc == c1 - c0
  IN  [k \in 1..((r1 - r0) * nc) |->
         hsv_image[r0 + ((k - 1) \div nc) + 1][c0 + ((k - 1) % nc) + 1]]

RECURSIVE SumChannel(_, _, _)
SumChannel(roi, ch, k) ==
  IF k = 0 THEN 0 ELSE roi[k][ch] + SumChannel(roi, ch, k - 1)

\* np.sum(mask > 0) for one color range
MatchCount(roi, color) ==
  Cardinality({k \in 1..Len(roi) :
                 inRange(roi[k], hsv_ranges[color].lower, hsv_ranges[color].upper)})

\* max(color_matches, key=color_matches.get): the first maximal key in
\* iteration order
RECURSIVE ArgMaxFrom(_, _, _)
ArgMaxFrom(cnt, best, i) ==
  IF i > Len(ColorOrder) THEN best
  ELSE ArgMaxFrom(cnt, IF cnt[ColorOrder[i]] > cnt[best] THEN ColorOrder[i] ELSE best, i + 1)

BestMatch(cnt) == ArgMaxFrom(cnt, ColorOrder[1], 2)

\* faulty variant of Decide: the green rule is tried before the
\* low-brightness rule
Decide_GreenBeforeLowV(cnt, sumV, n) ==
  IF cnt["blue"] * 100 > BLUE_MIN_PCT * n
  THEN [rule |-> "blue", color |-> "blue",
        conf |-> Min(CONF_CAP * LOW_V * n, cnt["blue"] * 100 * LOW_V)]
  ELSE IF cnt["green"] * 100 > GREEN_MIN_PCT * n
  THEN [rule |-> "green", color |-> "green",
        conf |-> Min(CONF_CAP * LOW_V * n, cnt["green"] * 100 * LOW_V)]
  ELSE IF sumV < LOW_V * n
  THEN [rule |-> "low_v", color |-> "black",
        conf |-> Max(0, Min(CONF_CAP * LOW_V * n, (LOW_V * n - sumV) * 100))]
  ELSE [rule |-> "best", color |-> BestMatch(cnt),
        conf |-> cnt[BestMatch(cnt)] * 100 * LOW_V]

\* faulty variant of Decide: the blue and green confidences are not capped
Decide_NoCap(cnt, sumV, n) ==
  IF cnt["blue"] * 100 > BLUE_MIN_PCT * n
  THEN [rule |-> "blue", color |-> "blue", conf |-> cnt["blue"] * 100 * LOW_V]
  ELSE IF sumV < LOW_V * n
  THEN [rule |-> "low_v", color |-> "black",
        conf |-> Max(0, Min(CONF_CAP * LOW_V * n, (LOW_V * n - sumV) * 100))]
  ELSE IF cnt["green"] * 100 > GREEN_MIN_PCT * n
  THEN [rule |-> "green", color |-> "green", conf |-> cnt["green"] * 100 * LOW_V]
  ELSE [rule |-> "best", color |-> BestMatch(cnt),
        conf |-> cnt[BestMatch(cnt)] * 100 * LOW_V]

\* the decision chain of classify_hsv on the per-color match counts cnt, the
\* sum of V over the region sumV and the region size n; the result is the
\* rule that fired, the color, and the confidence numerator over 120*n
Decide(cnt, sumV, n) ==
  IF cnt["blue"] * 100 > BLUE_MIN_PCT * n
  THEN [rule |-> "blue", color |-> "blue",
        conf |-> Min(CONF_CAP * LOW_V * n, cnt["blue"] * 100 * LOW_V)]
  ELSE IF sumV < LOW_V * n
  THEN [rule |-> "low_v", color |-> "black",
        conf |-> Max(0, Min(CONF_CAP * LOW_V * n, (LOW_V * n - sumV) * 100))]
  ELSE IF cnt["green"] * 100 > GREEN_MIN_PCT * n
  THEN [rule |-> "green", color |-> "green",
        conf |-> Min(CONF_CAP * LOW_V * n, cnt["green"] * 100 * LOW_V)]
  ELSE [rule |-> "best", color |-> BestMatch(cnt),
        conf |-> cnt[BestMatch(cnt)] * 100 * LOW_V]

classify_hsv(hsv_image) ==
  LET roi == RoiOf(hsv_image)
      n == Len(roi)
      cnt == [c \in {"blue", "green", "black"} |-> MatchCount(roi, c)]
      sumV == SumChannel(roi, 3, n)
      d == Decide(cnt, sumV, n)
  IN  [color |-> d.color,
       category |-> categories[d.color],
       v_sum |-> sumV,
       n |-> n,
       confidence |-> d.conf,
       reason |-> d.rule,
       color_matches |-> cnt]

\* ------------------------------------------------------------ state
VARIABLES
  status,         \* app.py STATE: running, startedAt, last, history, lastImagePath, lastError
  system,         \* app.py global system: 0 is None, else the engine's number
  worker_thread,  \* app.py global worker_thread: 0 is None, else the thread's number
  lock,           \* app.py lock: "free" or its holder
  spawnPending,   \* start requests past their critical section, before line 140
  launchPending,  \* start requests between line 140 and line 141
  startPc,        \* the start request that holds the lock: its position in
                  \* AWSSSystem(...) and AWSSSystem.start ("sensor", "built",
                  \* "assigned", "warm", "verify"), else "none"
  stopPending,    \* stop requests past their critical section, before line 156
  stopping,       \* per engine and per statement of AWSSSystem.stop: the stop
                  \* requests about to execute it
  camera,         \* per engine: "none" (not constructed), "configured", "started",
                  \* "stopped"
  sysRunning,     \* per engine: AWSSSystem.running
  total_bags,     \* per engine: AWSSSystem.total_bags
  results_log,    \* per engine: AWSSSystem.results_log (timestamps of the records)
  dayLog,         \* blocks of the per-day text log (timestamps of the records)
  captures,       \* the image files in data/captures (their names)
  pinSetup,       \* RPi.GPIO: the sensor channel is set up
  pc,             \* per worker thread: position in worker_loop
  slp,            \* per worker thread: ms left of the current time.sleep
  el,             \* per worker thread: time.time() - t0 of the current timed loop
  depth,          \* per worker thread: nested wait_for_bag calls below the first
  reads,          \* per worker thread: consecutive broken reads of the current wait
  self,           \* per worker thread: the engine bound to the running process_bag
  exc,            \* per worker thread: message of the exception being handled
  payload,        \* per worker thread: the payload dict being published, or empty
  ts_iso,         \* per worker thread: the timestamp process_bag has taken, or 0
  ts_name,        \* per worker thread: the file name process_bag has taken, or 0
  frame,          \* per worker thread: the frame process_bag has captured, or empty
  beam,           \* the breakbeam is broken
  brokenMs,       \* length so far of the current (or last) broken interval
  trigCount,      \* triggers confirmed in the current broken interval
  lastTrigger,    \* the last confirmed trigger: whether the beam was clear again after
                  \* less than DEBOUNCE_MS broken, and the broken reads that led to it
  exact,          \* every sleep lasts its nominal time (else: any longer time)
  now,            \* the wall clock at full resolution, one step per timestamp taken
  nameClock,      \* the wall clock at the 1 s resolution of the file names: the
                  \* second of the last name taken (seconds in which no name was
                  \* taken are not counted) and the threads that took a name in it
  budget,         \* pipeline invocations left to explore
  img,            \* classifier check: the HSV image, or empty
  cres,           \* classifier check: the result of classify_hsv, or empty
  snapshot,       \* the dict api_status returned last, or empty
  stopDuringWait  \* per worker thread: a stop request took effect while the
                  \* thread was inside its current wait_for_bag

statusVars == <<status>>
ctlVars == <<system, worker_thread, lock, spawnPending, launchPending, startPc,
             stopPending, stopping>>
engineVars == <<camera, sysRunning, total_bags, results_log, dayLog, captures, pinSetup>>
threadVars == <<pc, slp, el, depth, reads, self, exc, payload>>
sensorVars == <<beam, brokenMs, trigCount, lastTrigger>>
envVars == <<exact, now, budget, nameClock>>
classVars == <<img, cres>>
obsVars == <<snapshot>>
vars == <<statusVars, ctlVars, engineVars, threadVars, sensorVars, envVars, classVars,
          ts_iso, ts_name, frame, obsVars, stopDuringWait>>

Engines == 1..MaxStarts
Workers == 1..MaxStarts

\* the thread has been started and has not ended
Live(w) == pc[w] \notin {"idle", "new", "done"}

\* the thread is inside system.ir_sensor.wait_for_bag()
InWait(w) == pc[w] \in {"wfb_clear", "wfb_deb"}

\* ------------------------------------------------------------ classifier inputs
\* Pixels used to build images: the lower corner of the blue range, the upper
\* corner of the green range, the upper corner of the black range, pure black,
\* and two pixels no range matches (one darker than LOW_V, one bright).
PixelKinds ==
  <<<<15, 50, 170>>, <<90, 255, 255>>, <<179, 255, 100>>, <<0, 0, 0>>,
    <<0, 0, 110>>, <<0, 0, 255>>>>

RoiRows == ((3 * ImgH) \div 4) - (ImgH \div 4)
RoiCols == ((3 * ImgW) \div 4) - (ImgW \div 4)
RoiSize == RoiRows * RoiCols

\* the image whose border pixels are all `border` and whose region of interest
\* holds, in row-major order, the pixel kinds in ascending order with kind i
\* ending at position thr[i]
ImageOf(thr, border) ==
  LET kindAt(k) == 1 + Cardinality({i \in 1..Len(thr) : thr[i] < k})
      r0 == ImgH \div 4
      c0 == ImgW \div 4
      inRoi(r, c) == r > r0 /\ r <= r0 + RoiRows /\ c > c0 /\ c <= c0 + RoiCols
  IN  [r \in 1..ImgH |-> [c \in 1..ImgW |->
         IF inRoi(r, c)
         THEN PixelKinds[kindAt((r - r0 - 1) * RoiCols + (c - c0))]
         ELSE PixelKinds[border]]]

Images ==
  {ImageOf(<<a, b, c, d, e>>, border) :
     <<a, b, c, d, e, border>> \in
       {t \in (0..RoiSize) \X (0..RoiSize) \X (0..RoiSize) \X (0..RoiSize)
                \X (0..RoiSize) \X {3, 6} :
          t[1] <= t[2] /\ t[2] <= t[3] /\ t[3] <= t[4] /\ t[4] <= t[5]}}

\* frames the camera delivers in the worker-loop specifications, after
\* cv2.cvtColor: a frame whose every pixel is in the blue range
UniformImage(kind) == [r \in 1..ImgH |-> [c \in 1..ImgW |-> PixelKinds[kind]]]
SampleFrames == {UniformImage(1)}

\* self.classifier.classify_hsv(frame_hsv) on each of these frames
FrameClass == [f \in SampleFrames |-> classify_hsv(f)]

\* ------------------------------------------------------------ status record
NoStatus ==
  [running |-> FALSE, startedAt |-> 0, last |-> <<>>, history |-> <<>>,
   lastImagePath |-> 0, lastError |-> "None"]

\* faulty variant of push_history: the item is appended at the end
push_history_Append(history, item) ==
  LET h == history \o <<item>>
  IN  IF Len(h) > MAX_HISTORY THEN SubSeq(h, 1, MAX_HISTORY) ELSE h

\* _push_history: insert at index 0, keep the first MAX_HISTORY entries
push_history(history, item) ==
  LET h == <<item>> \o history
  IN  IF Len(h) > MAX_HISTORY THEN SubSeq(h, 1, MAX_HISTORY) ELSE h

Free == <<>>
ByStart == <<"start">>
ByWorker(w) == <<"worker", w>>

\* time.sleep(ms): its nominal time when exact; otherwise the thread may
\* oversleep by any amount and no time is kept
Sleep(ms) == IF exact THEN ms ELSE 0

\* what time.time() - t0 reads at the next test of a loop that ends at cap,
\* after one more sleep of ms: exactly ms more when exact, else anything (kept: unchanged or
\* past the end)
Elapsed(e, ms, cap) == IF exact THEN {Min(e + ms, cap)} ELSE {e, cap}

\* ------------------------------------------------------------ api_start
NewEngine == 1 + Cardinality({e \in Engines : camera[e] # "none"})

\* the engine constructed last
Built == Cardinality({e \in Engines : camera[e] # "none"})

\* an exception leaves the with-block of api_start: the lock is released and
\* the request ends
StartFails ==
  /\ lock' = Free
  /\ startPc' = "none"

\* faulty variant of api_start: the running check is missing
api_start_NoRunningCheck ==
  /\ lock = Free
  /\ NewEngine \in Engines
  /\ pinSetup' = TRUE
  /\ lock' = ByStart
  /\ startPc' = "sensor"
  /\ UNCHANGED <<statusVars, system, worker_thread, spawnPending, launchPending,
                 stopPending, stopping, camera, sysRunning, total_bags, results_log,
                 dayLog, captures>>
  /\ UNCHANGED <<threadVars, sensorVars, envVars, classVars, ts_iso, ts_name, frame,
                 obsVars, stopDuringWait>>

\* lines 126-130: under the lock, the running check, then AWSSSystem(...) as
\* far as IRSensor(...), which sets up the sensor channel (final.py lines
\* 192 and 36-41)
api_start ==
  /\ lock = Free
  /\ IF status.running
     THEN UNCHANGED <<lock, startPc, pinSetup>>
     ELSE /\ NewEngine \in Engines
          /\ pinSetup' = TRUE
          /\ lock' = ByStart
          /\ startPc' = "sensor"
  /\ UNCHANGED <<statusVars, system, worker_thread, spawnPending, launchPending,
                 stopPending, stopping, camera, sysRunning, total_bags, results_log,
                 dayLog, captures>>
  /\ UNCHANGED <<threadVars, sensorVars, envVars, classVars, ts_iso, ts_name, frame,
                 obsVars, stopDuringWait>>

\* the rest of AWSSSystem.__init__, final.py lines 193-207: the camera is
\* opened and configured, or Picamera2 raises
start_build ==
  /\ lock = ByStart
  /\ startPc = "sensor"
  /\ \E ok \in BOOLEAN :
       IF ok
       THEN /\ camera' = [camera EXCEPT ![NewEngine] = "configured"]
            /\ startPc' = "built"
            /\ UNCHANGED lock
       ELSE /\ StartFails
            /\ UNCHANGED camera
  /\ UNCHANGED <<statusVars, system, worker_thread, spawnPending, launchPending,
                 stopPending, stopping, sysRunning, total_bags, results_log, dayLog,
                 captures, pinSetup, threadVars, sensorVars, envVars, classVars,
                 ts_iso, ts_name, frame, obsVars, stopDuringWait>>

\* line 130: the new engine is bound to the global
start_assign ==
  /\ lock = ByStart
  /\ startPc = "built"
  /\ system' = Built
  /\ startPc' = "assigned"
  /\ UNCHANGED <<statusVars, worker_thread, lock, spawnPending, launchPending,
                 stopPending, stopping, engineVars, threadVars, sensorVars, envVars,
                 classVars, ts_iso, ts_name, frame, obsVars, stopDuringWait>>

\* line 131 and AWSSSystem.start, final.py lines 211-216: camera.start()
\* succeeds and the request thread sleeps the warm-up time, or it raises
start_camera ==
  /\ lock = ByStart
  /\ startPc = "assigned"
  /\ \E ok \in BOOLEAN :
       IF ok
       THEN /\ camera' = [camera EXCEPT ![system] = "started"]
            /\ startPc' = "warm"
            /\ UNCHANGED lock
       ELSE /\ StartFails
            /\ UNCHANGED camera
  /\ UNCHANGED <<statusVars, system, worker_thread, spawnPending, launchPending,
                 stopPending, stopping, sysRunning, total_bags, results_log, dayLog,
                 captures, pinSetup, threadVars, sensorVars, envVars, classVars,
                 ts_iso, ts_name, frame, obsVars, stopDuringWait>>

\* AWSSSystem.start, final.py line 217: after the warm-up the engine is
\* marked running; the request thread, still holding the lock, enters
\* verify_sensor
start_running ==
  /\ lock = ByStart
  /\ startPc = "warm"
  /\ sysRunning' = [sysRunning EXCEPT ![system] = TRUE]
  /\ startPc' = "verify"
  /\ UNCHANGED <<statusVars, system, worker_thread, lock, spawnPending, launchPending,
                 stopPending, stopping, camera, total_bags, results_log, dayLog,
                 captures, pinSetup, threadVars, sensorVars, envVars, classVars,
                 ts_iso, ts_name, frame, obsVars, stopDuringWait>>

\* faulty variant of api_start_reset: the history is not cleared
api_start_reset_KeepsHistory ==
  /\ lock = ByStart
  /\ startPc = "verify"
  /\ status' = [running |-> TRUE, startedAt |-> now + 1, last |-> <<>>,
                history |-> status.history, lastImagePath |-> 0,
                lastError |-> "None"]
  /\ now' = now + 1
  /\ lock' = Free
  /\ startPc' = "none"
  /\ spawnPending' = spawnPending + 1
  /\ UNCHANGED <<system, worker_thread, launchPending, stopPending, stopping,
                 engineVars, threadVars, sensorVars, exact, budget, nameClock,
                 classVars, ts_iso, ts_name, frame, obsVars, stopDuringWait>>

\* the rest of AWSSSystem.start (final.py lines 220-225: verify_sensor only
\* reads the sensor and sleeps, lines 78-82, and its result and any exception
\* of a read are dropped), then app.py lines 133-138: the status reset, and
\* the lock is released
api_start_reset ==
  /\ lock = ByStart
  /\ startPc = "verify"
  /\ status' = [running |-> TRUE, startedAt |-> now + 1, last |-> <<>>,
                history |-> <<>>, lastImagePath |-> 0, lastError |-> "None"]
  /\ now' = now + 1
  /\ lock' = Free
  /\ startPc' = "none"
  /\ spawnPending' = spawnPending + 1
  /\ UNCHANGED <<system, worker_thread, launchPending, stopPending, stopping,
                 engineVars, threadVars, sensorVars, exact, budget, nameClock,
                 classVars, ts_iso, ts_name, frame, obsVars, stopDuringWait>>

\* line 140: a Thread object is created and bound to the global
api_start_spawn ==
  /\ spawnPending > 0
  /\ \E w \in Workers :
       /\ pc[w] = "idle"
       /\ \A v \in Workers : v < w => pc[v] # "idle"
       /\ pc' = [pc EXCEPT ![w] = "new"]
       /\ worker_thread' = w
  /\ spawnPending' = spawnPending - 1
  /\ launchPending' = launchPending + 1
  /\ UNCHANGED <<statusVars, system, lock, startPc, stopPending, stopping, engineVars,
                 slp, el, depth, reads, self, exc, payload, sensorVars, envVars,
                 classVars, ts_iso, ts_name, frame, obsVars, stopDuringWait>>

\* line 141: the thread the global names now is started; start() on a
\* thread that was started already raises and starts nothing
api_start_launch ==
  /\ launchPending > 0
  /\ launchPending' = launchPending - 1
  /\ pc' = IF pc[worker_thread] = "new"
           THEN [pc EXCEPT ![worker_thread] = "check1"]
           ELSE pc
  /\ UNCHANGED <<statusVars, system, worker_thread, lock, spawnPending, startPc,
                 stopPending, stopping, engineVars, slp, el, depth, reads, self, exc,
                 payload, sensorVars, envVars, classVars, ts_iso, ts_name, frame,
                 obsVars, stopDuringWait>>

\* ------------------------------------------------------------ api_stop
\* lines 150-153
api_stop ==
  /\ lock = Free
  /\ IF ~status.running
     THEN UNCHANGED <<statusVars, stopPending>>
     ELSE /\ status' = [status EXCEPT !.running = FALSE]
          /\ stopPending' = stopPending + 1
  /\ stopDuringWait' =
       [w \in Workers |-> stopDuringWait[w] \/ (status.running /\ InWait(w))]
  /\ UNCHANGED <<system, worker_thread, lock, spawnPending, launchPending, startPc,
                 stopping, engineVars, threadVars, sensorVars, envVars, classVars,
                 ts_iso, ts_name, frame, obsVars>>

\* the statements of AWSSSystem.stop that change something, in order
StopStages == <<"running", "camera", "pin">>

\* a stop request inside AWSSSystem.stop of engine e goes on from its
\* statement number i; after the last one it returns
StopAdvance(e, i) ==
  stopping' = [stopping EXCEPT
    ![e] = [j \in 1..Len(StopStages) |->
              IF j = i THEN stopping[e][j] - 1
              ELSE IF j = i + 1 THEN stopping[e][j] + 1
              ELSE stopping[e][j]]]

\* some stop request has not returned yet
StopInProgress ==
  \/ stopPending > 0
  \/ \E e \in Engines, i \in 1..Len(StopStages) : stopping[e][i] > 0

\* lines 155-157: outside the lock, the request calls stop on whatever
\* engine the global names by then
api_stop_bind ==
  /\ stopPending > 0
  /\ stopPending' = stopPending - 1
  /\ stopping' = IF system # 0
                 THEN [stopping EXCEPT ![system][1] = stopping[system][1] + 1]
                 ELSE stopping
  /\ UNCHANGED <<statusVars, system, worker_thread, lock, spawnPending, launchPending,
                 startPc, engineVars, threadVars, sensorVars, envVars, classVars,
                 ts_iso, ts_name, frame, obsVars, stopDuringWait>>

\* AWSSSystem.stop, final.py line 229
stop_running(e) ==
  /\ stopping[e][1] > 0
  /\ StopAdvance(e, 1)
  /\ sysRunning' = [sysRunning EXCEPT ![e] = FALSE]
  /\ UNCHANGED <<statusVars, system, worker_thread, lock, spawnPending, launchPending,
                 startPc, stopPending, camera, total_bags, results_log, dayLog,
                 captures, pinSetup, threadVars, sensorVars, envVars, classVars,
                 ts_iso, ts_name, frame, obsVars, stopDuringWait>>

\* AWSSSystem.stop, final.py lines 230-233: camera.stop(); an exception of
\* it is dropped
stop_camera(e) ==
  /\ stopping[e][2] > 0
  /\ StopAdvance(e, 2)
  /\ camera' = [camera EXCEPT ![e] = "stopped"]
  /\ UNCHANGED <<statusVars, system, worker_thread, lock, spawnPending, launchPending,
                 startPc, stopPending, sysRunning, total_bags, results_log, dayLog,
                 captures, pinSetup, threadVars, sensorVars, envVars, classVars,
                 ts_iso, ts_name, frame, obsVars, stopDuringWait>>

\* AWSSSystem.stop, final.py lines 234-238, and lines 158-161 of app.py:
\* GPIO.cleanup of the sensor channel, and the request returns
stop_cleanup(e) ==
  /\ stopping[e][3] > 0
  /\ StopAdvance(e, 3)
  /\ pinSetup' = FALSE
  /\ UNCHANGED <<statusVars, system, worker_thread, lock, spawnPending, launchPending,
                 startPc, stopPending, camera, sysRunning, total_bags, results_log,
                 dayLog, captures, threadVars, sensorVars, envVars, classVars,
                 ts_iso, ts_name, frame, obsVars, stopDuringWait>>

\* lines 155-161 with AWSSSystem.stop: the steps of a stop request after its
\* critical section
api_stop_engine ==
  \/ api_stop_bind
  \/ \E e \in Engines : stop_running(e)
  \/ \E e \in Engines : stop_camera(e)
  \/ \E e \in Engines : stop_cleanup(e)

\* ------------------------------------------------------------ api_status
\* faulty variant of api_status: the record is read without the lock
api_status_NoLock ==
  /\ snapshot' = <<[running |-> status.running, startedAt |-> status.startedAt,
                    last |-> status.last, history |-> status.history,
                    lastImagePath |-> status.lastImagePath,
                    lastError |-> status.lastError]>>
  /\ UNCHANGED <<statusVars, ctlVars, engineVars, threadVars, sensorVars, envVars,
                 classVars, ts_iso, ts_name, frame, stopDuringWait>>

\* lines 166-174: under the lock, the six fields are copied into the response
api_status ==
  /\ lock = Free
  /\ snapshot' = <<[running |-> status.running, startedAt |-> status.startedAt,
                    last |-> status.last, history |-> status.history,
                    lastImagePath |-> status.lastImagePath,
                    lastError |-> status.lastError]>>
  /\ UNCHANGED <<statusVars, ctlVars, engineVars, threadVars, sensorVars, envVars,
                 classVars, ts_iso, ts_name, frame, stopDuringWait>>

\* ------------------------------------------------------------ worker_loop
Ready(w, at) == pc[w] = at /\ slp[w] = 0

\* faulty variant of loop_check: the running flag is not looked at
loop_check_IgnoresFlag(w) ==
  /\ Ready(w, "check1")
  /\ lock = Free
  /\ pc' = [pc EXCEPT ![w] = "wfb_clear"]
  /\ UNCHANGED <<statusVars, ctlVars, engineVars, slp, el, depth, reads, self, exc,
                 payload, sensorVars, envVars, classVars, ts_iso, ts_name, frame, obsVars, stopDuringWait>>

\* lines 64-67: the first check of the running flag
loop_check(w) ==
  /\ Ready(w, "check1")
  /\ lock = Free
  /\ pc' = [pc EXCEPT ![w] = IF status.running THEN "wfb_clear" ELSE "done"]
  /\ UNCHANGED <<statusVars, ctlVars, engineVars, slp, el, depth, reads, self, exc,
                 payload, sensorVars, envVars, classVars, ts_iso, ts_name, frame, obsVars, stopDuringWait>>

\* IRSensor.wait_for_bag, lines 55-56 of final.py: one is_clear() read of the
\* first loop.  GPIO.input raises on a channel that is not set up.
wait_clear(w) ==
  /\ Ready(w, "wfb_clear")
  /\ IF ~pinSetup
     THEN /\ pc' = [pc EXCEPT ![w] = "ir_exc"]
          /\ exc' = [exc EXCEPT ![w] = "IR sensor error"]
          /\ depth' = [depth EXCEPT ![w] = 0]
          /\ reads' = [reads EXCEPT ![w] = 0]
          /\ UNCHANGED <<slp, el>>
     ELSE IF ~beam
     THEN /\ slp' = [slp EXCEPT ![w] = Sleep(CLEAR_POLL_MS)]
          /\ reads' = [reads EXCEPT ![w] = 0]
          /\ UNCHANGED <<pc, exc, depth, el>>
     ELSE /\ pc' = [pc EXCEPT ![w] = "wfb_deb"]
          /\ el' = [el EXCEPT ![w] = 0]
          /\ reads' = [reads EXCEPT ![w] = IF exact THEN 1 ELSE 0]
          /\ UNCHANGED <<slp, exc, depth>>
  /\ UNCHANGED <<statusVars, ctlVars, engineVars, self, payload, sensorVars, envVars,
                 classVars, ts_iso, ts_name, frame, obsVars, stopDuringWait>>

\* faulty variant of debounce: a clear read inside the window is ignored
debounce_IgnoresClear(w) ==
  /\ Ready(w, "wfb_deb")
  /\ IF el[w] >= DEBOUNCE_MS
     THEN /\ pc' = [pc EXCEPT ![w] = "check2"]
          /\ depth' = [depth EXCEPT ![w] = 0]
          /\ el' = [el EXCEPT ![w] = 0]
          /\ trigCount' = IF exact THEN Min(2, trigCount + 1) ELSE trigCount
          /\ lastTrigger' = IF exact
                            THEN <<[short |-> ~beam /\ brokenMs < DEBOUNCE_MS,
                                    reads |-> reads[w]]>>
                            ELSE lastTrigger
          /\ reads' = [reads EXCEPT ![w] = 0]
          /\ UNCHANGED <<slp, exc>>
     ELSE IF ~pinSetup
     THEN /\ pc' = [pc EXCEPT ![w] = "ir_exc"]
          /\ exc' = [exc EXCEPT ![w] = "IR sensor error"]
          /\ depth' = [depth EXCEPT ![w] = 0]
          /\ el' = [el EXCEPT ![w] = 0]
          /\ reads' = [reads EXCEPT ![w] = 0]
          /\ UNCHANGED <<slp, trigCount, lastTrigger>>
     ELSE /\ slp' = [slp EXCEPT ![w] = Sleep(DEBOUNCE_POLL_MS)]
          /\ \E e \in Elapsed(el[w], DEBOUNCE_POLL_MS, DEBOUNCE_MS) :
               el' = [el EXCEPT ![w] = e]
          /\ reads' = [reads EXCEPT ![w] = IF ~exact THEN 0
                                           ELSE IF beam THEN reads[w] + 1 ELSE 0]
          /\ UNCHANGED <<pc, exc, depth, trigCount, lastTrigger>>
  /\ UNCHANGED <<statusVars, ctlVars, engineVars, self, payload, beam, brokenMs,
                 envVars, classVars, ts_iso, ts_name, frame, obsVars, stopDuringWait>>

\* IRSensor.wait_for_bag, lines 59-67 of final.py: one pass of the debounce
\* loop.  The window test comes first; a clear read restarts by recursion; the
\* return of True unwinds every nested call.
debounce(w) ==
  /\ Ready(w, "wfb_deb")
  /\ IF el[w] >= DEBOUNCE_MS
     THEN /\ pc' = [pc EXCEPT ![w] = "check2"]
          /\ depth' = [depth EXCEPT ![w] = 0]
          /\ el' = [el EXCEPT ![w] = 0]
          /\ trigCount' = IF exact THEN Min(2, trigCount + 1) ELSE trigCount
          /\ lastTrigger' = IF exact
                            THEN <<[short |-> ~beam /\ brokenMs < DEBOUNCE_MS,
                                    reads |-> reads[w]]>>
                            ELSE lastTrigger
          /\ reads' = [reads EXCEPT ![w] = 0]
          /\ UNCHANGED <<slp, exc>>
     ELSE IF ~pinSetup
     THEN /\ pc' = [pc EXCEPT ![w] = "ir_exc"]
          /\ exc' = [exc EXCEPT ![w] = "IR sensor error"]
          /\ depth' = [depth EXCEPT ![w] = 0]
          /\ el' = [el EXCEPT ![w] = 0]
          /\ reads' = [reads EXCEPT ![w] = 0]
          /\ UNCHANGED <<slp, trigCount, lastTrigger>>
     ELSE IF ~beam
     THEN /\ depth[w] < MaxDepth
          /\ pc' = [pc EXCEPT ![w] = "wfb_clear"]
          /\ depth' = [depth EXCEPT ![w] = depth[w] + 1]
          /\ el' = [el EXCEPT ![w] = 0]
          /\ reads' = [reads EXCEPT ![w] = 0]
          /\ UNCHANGED <<slp, exc, trigCount, lastTrigger>>
     ELSE /\ slp' = [slp EXCEPT ![w] = Sleep(DEBOUNCE_POLL_MS)]
          /\ \E e \in Elapsed(el[w], DEBOUNCE_POLL_MS, DEBOUNCE_MS) :
               el' = [el EXCEPT ![w] = e]
          /\ reads' = [reads EXCEPT ![w] = IF exact THEN reads[w] + 1 ELSE 0]
          /\ UNCHANGED <<pc, exc, depth, trigCount, lastTrigger>>
  /\ UNCHANGED <<statusVars, ctlVars, engineVars, self, payload, beam, brokenMs,
                 envVars, classVars, ts_iso, ts_name, frame, obsVars, stopDuringWait>>

\* faulty variant of ir_error: the handler also clears the last detection
ir_error_ClearsLast(w) ==
  /\ Ready(w, "ir_exc")
  /\ lock = Free
  /\ status' = [status EXCEPT !.lastError = exc[w], !.last = <<>>]
  /\ exc' = [exc EXCEPT ![w] = "None"]
  /\ slp' = [slp EXCEPT ![w] = Sleep(IR_RETRY_MS)]
  /\ pc' = [pc EXCEPT ![w] = "check1"]
  /\ stopDuringWait' = [stopDuringWait EXCEPT ![w] = FALSE]
  /\ UNCHANGED <<ctlVars, engineVars, el, depth, reads, self, payload, sensorVars,
                 envVars, classVars, ts_iso, ts_name, frame, obsVars>>

\* lines 72-76: the sensor error is recorded, the thread pauses and retries
ir_error(w) ==
  /\ Ready(w, "ir_exc")
  /\ lock = Free
  /\ status' = [status EXCEPT !.lastError = exc[w]]
  /\ exc' = [exc EXCEPT ![w] = "None"]
  /\ slp' = [slp EXCEPT ![w] = Sleep(IR_RETRY_MS)]
  /\ pc' = [pc EXCEPT ![w] = "check1"]
  /\ stopDuringWait' = [stopDuringWait EXCEPT ![w] = FALSE]
  /\ UNCHANGED <<ctlVars, engineVars, el, depth, reads, self, payload, sensorVars,
                 envVars, classVars, ts_iso, ts_name, frame, obsVars>>

\* lines 78-80: the second check of the running flag
loop_recheck(w) ==
  /\ Ready(w, "check2")
  /\ lock = Free
  /\ pc' = [pc EXCEPT ![w] = IF status.running THEN "pb_begin" ELSE "done"]
  /\ stopDuringWait' = [stopDuringWait EXCEPT ![w] = FALSE]
  /\ UNCHANGED <<statusVars, ctlVars, engineVars, slp, el, depth, reads, self, exc,
                 payload, sensorVars, envVars, classVars, ts_iso, ts_name, frame, obsVars>>

\* line 84 and AWSSSystem.process_bag, lines 262-265 of final.py: the call
\* binds the engine the global names now, counts the bag, and sleeps the
\* settle delay
pb_begin(w) ==
  /\ Ready(w, "pb_begin")
  /\ budget > 0
  /\ budget' = budget - 1
  /\ self' = [self EXCEPT ![w] = system]
  /\ total_bags' = [total_bags EXCEPT ![system] = total_bags[system] + 1]
  /\ slp' = [slp EXCEPT ![w] = Sleep(SETTLE_MS)]
  /\ pc' = [pc EXCEPT ![w] = "pb_stamp"]
  /\ UNCHANGED <<statusVars, ctlVars, camera, sysRunning, results_log, dayLog, captures,
                 pinSetup, el, depth, reads, exc, payload, sensorVars, exact, now,
                 nameClock, classVars, ts_iso, ts_name, frame, obsVars, stopDuringWait>>

\* the dict process_bag returns, lines 283-293 of final.py; the image path
\* and the file name are both given by the name taken at line 269
ResultOf(ts, name, c) ==
  [timestamp |-> ts, category |-> c.category, color |-> c.color,
   confidence |-> c.confidence, conf_den |-> LOW_V * c.n, reason |-> c.reason,
   image_path |-> name, image_filename |-> name]

\* lines 86-95: the payload built from the returned dict
PayloadOf(r) ==
  [timestamp |-> r.timestamp, category |-> r.category, confidence |-> r.confidence,
   conf_den |-> r.conf_den, reason |-> r.reason, image_path |-> r.image_path,
   image_filename |-> r.image_filename]

\* lines 105-112: the payload of a failed invocation
ErrorPayload(ts, msg) ==
  [timestamp |-> ts, category |-> "ERROR", confidence |-> 0, conf_den |-> 1,
   reason |-> msg, image_path |-> 0, image_filename |-> 0]

\* the thread is inside process_bag, past its settle delay's start
InPipeline(w) ==
  pc[w] \in {"pb_stamp", "pb_name", "pb_capture", "pb_blocked", "pb_write",
             "pb_append", "pb_log"}

\* process_bag raises: the locals are dropped and the handler of line 103
\* is entered
Raise(w, msg) ==
  /\ exc' = [exc EXCEPT ![w] = msg]
  /\ pc' = [pc EXCEPT ![w] = "pub_err"]
  /\ self' = [self EXCEPT ![w] = 0]
  /\ ts_iso' = [ts_iso EXCEPT ![w] = 0]
  /\ ts_name' = [ts_name EXCEPT ![w] = 0]
  /\ frame' = [frame EXCEPT ![w] = <<>>]

\* process_bag, line 268 of final.py: after the settle delay the timestamp
\* of the record is taken
pb_stamp(w) ==
  /\ Ready(w, "pb_stamp")
  /\ now' = now + 1
  /\ ts_iso' = [ts_iso EXCEPT ![w] = now + 1]
  /\ pc' = [pc EXCEPT ![w] = "pb_name"]
  /\ UNCHANGED <<statusVars, ctlVars, engineVars, slp, el, depth, reads, self, exc,
                 payload, sensorVars, exact, budget, nameClock, classVars, ts_name,
                 frame, obsVars, stopDuringWait>>

\* process_bag, lines 269-271: a second clock read, cut to the second, names
\* the image file.  The read falls in the second of the last name taken or in
\* a later one; a thread never takes two names in one second, since the sleeps
\* of lines 119 and 265 lie between them.
pb_name(w) ==
  /\ Ready(w, "pb_name")
  /\ \E later \in BOOLEAN :
       IF later \/ nameClock.sec = 0 \/ w \in nameClock.by
       THEN /\ nameClock' = [sec |-> nameClock.sec + 1, by |-> {w}]
            /\ ts_name' = [ts_name EXCEPT ![w] = nameClock.sec + 1]
       ELSE /\ nameClock' = [nameClock EXCEPT !.by = nameClock.by \cup {w}]
            /\ ts_name' = [ts_name EXCEPT ![w] = nameClock.sec]
  /\ pc' = [pc EXCEPT ![w] = "pb_capture"]
  /\ UNCHANGED <<statusVars, ctlVars, engineVars, slp, el, depth, reads, self, exc,
                 payload, sensorVars, exact, now, budget, classVars, ts_iso, frame,
                 obsVars, stopDuringWait>>

\* what capture_array can do on a camera in state cam: deliver a frame or
\* raise; on a camera that is not started nothing in the code makes it
\* return, so it may also wait for a frame for ever
CaptureOutcomes(cam) ==
  IF cam = "started" THEN {"frame", "raise"} ELSE {"frame", "raise", "block"}

\* process_bag, line 273: capture_array delivers a frame, raises, or (on a
\* camera that is not started) does not return
pb_capture(w) ==
  /\ Ready(w, "pb_capture")
  /\ \E outcome \in CaptureOutcomes(camera[self[w]]), f \in SampleFrames :
       IF outcome = "frame"
       THEN /\ frame' = [frame EXCEPT ![w] = f]
            /\ pc' = [pc EXCEPT ![w] = "pb_write"]
            /\ UNCHANGED <<exc, self, ts_iso, ts_name>>
       ELSE IF outcome = "raise"
       THEN Raise(w, "capture failed")
       ELSE /\ pc' = [pc EXCEPT ![w] = "pb_blocked"]
            /\ UNCHANGED <<exc, self, ts_iso, ts_name, frame>>
  /\ UNCHANGED <<statusVars, ctlVars, engineVars, slp, el, depth, reads, payload,
                 sensorVars, envVars, classVars, obsVars, stopDuringWait>>

\* process_bag, lines 274-277: cv2.imwrite writes the file of that name,
\* replacing one that exists, or returns False and the invocation raises
pb_write(w) ==
  /\ Ready(w, "pb_write")
  /\ \E ok \in BOOLEAN :
       IF ok
       THEN /\ captures' = captures \cup {ts_name[w]}
            /\ pc' = [pc EXCEPT ![w] = "pb_append"]
            /\ UNCHANGED <<exc, self, ts_iso, ts_name, frame>>
       ELSE /\ Raise(w, "Failed to write image")
            /\ UNCHANGED captures
  /\ UNCHANGED <<statusVars, ctlVars, camera, sysRunning, total_bags, results_log,
                 dayLog, pinSetup, slp, el, depth, reads, payload, sensorVars,
                 envVars, classVars, obsVars, stopDuringWait>>

\* process_bag, lines 280-295: the frame is classified, the record is built
\* and appended to results_log
pb_append(w) ==
  /\ Ready(w, "pb_append")
  /\ results_log' =
       [results_log EXCEPT ![self[w]] = Append(results_log[self[w]], ts_iso[w])]
  /\ pc' = [pc EXCEPT ![w] = "pb_log"]
  /\ UNCHANGED <<statusVars, ctlVars, camera, sysRunning, total_bags, dayLog,
                 captures, pinSetup, slp, el, depth, reads, self, exc, payload,
                 sensorVars, envVars, classVars, ts_iso, ts_name, frame, obsVars,
                 stopDuringWait>>

\* process_bag, lines 296-297, then lines 86-95 of app.py: _save_log appends
\* the block of the record to the day log or raises; the record is returned
\* and the payload built from it
pb_log(w) ==
  /\ Ready(w, "pb_log")
  /\ \E ok \in BOOLEAN :
       IF ok
       THEN /\ dayLog' = Append(dayLog, ts_iso[w])
            /\ payload' = [payload EXCEPT
                 ![w] = <<PayloadOf(ResultOf(ts_iso[w], ts_name[w],
                                             FrameClass[frame[w]]))>>]
            /\ pc' = [pc EXCEPT ![w] = "pub_ok"]
            /\ self' = [self EXCEPT ![w] = 0]
            /\ ts_iso' = [ts_iso EXCEPT ![w] = 0]
            /\ ts_name' = [ts_name EXCEPT ![w] = 0]
            /\ frame' = [frame EXCEPT ![w] = <<>>]
            /\ UNCHANGED exc
       ELSE /\ Raise(w, "log write failed")
            /\ UNCHANGED <<dayLog, payload>>
  /\ UNCHANGED <<statusVars, ctlVars, camera, sysRunning, total_bags, results_log,
                 captures, pinSetup, slp, el, depth, reads, sensorVars, envVars,
                 classVars, obsVars, stopDuringWait>>

\* lines 97-100: under the lock, last, lastImagePath and lastError are set
publish_ok(w) ==
  /\ Ready(w, "pub_ok")
  /\ lock = Free
  /\ lock' = ByWorker(w)
  /\ status' = [status EXCEPT !.last = payload[w],
                              !.lastImagePath = payload[w][1].image_path,
                              !.lastError = "None"]
  /\ pc' = [pc EXCEPT ![w] = "push"]
  /\ UNCHANGED <<system, worker_thread, spawnPending, startPc, launchPending, stopPending, stopping, engineVars,
                 slp, el, depth, reads, self, exc, payload, sensorVars, envVars,
                 classVars, ts_iso, ts_name, frame, obsVars, stopDuringWait>>

\* faulty variant of publish_err: lastError is left as it was
publish_err_KeepsLastError(w) ==
  /\ Ready(w, "pub_err")
  /\ lock = Free
  /\ lock' = ByWorker(w)
  /\ now' = now + 1
  /\ payload' = [payload EXCEPT ![w] = <<ErrorPayload(now + 1, exc[w])>>]
  /\ status' = [status EXCEPT !.last = <<ErrorPayload(now + 1, exc[w])>>]
  /\ exc' = [exc EXCEPT ![w] = "None"]
  /\ pc' = [pc EXCEPT ![w] = "push"]
  /\ UNCHANGED <<system, worker_thread, spawnPending, startPc, launchPending, stopPending, stopping, engineVars,
                 slp, el, depth, reads, self, sensorVars, exact, budget, nameClock, classVars, ts_iso, ts_name, frame, obsVars, stopDuringWait>>

\* lines 103-114: under the lock, the ERROR payload is built and last and
\* lastError are set
publish_err(w) ==
  /\ Ready(w, "pub_err")
  /\ lock = Free
  /\ lock' = ByWorker(w)
  /\ now' = now + 1
  /\ payload' = [payload EXCEPT ![w] = <<ErrorPayload(now + 1, exc[w])>>]
  /\ status' = [status EXCEPT !.last = <<ErrorPayload(now + 1, exc[w])>>,
                              !.lastError = exc[w]]
  /\ exc' = [exc EXCEPT ![w] = "None"]
  /\ pc' = [pc EXCEPT ![w] = "push"]
  /\ UNCHANGED <<system, worker_thread, spawnPending, startPc, launchPending, stopPending, stopping, engineVars,
                 slp, el, depth, reads, self, sensorVars, exact, budget, nameClock, classVars, ts_iso, ts_name, frame, obsVars, stopDuringWait>>

\* lines 101 and 115: _push_history, then the lock is released
push(w) ==
  /\ Ready(w, "push")
  /\ lock = ByWorker(w)
  /\ status' = [status EXCEPT !.history = push_history(status.history, payload[w][1])]
  /\ lock' = Free
  /\ payload' = [payload EXCEPT ![w] = <<>>]
  /\ pc' = [pc EXCEPT ![w] = "cool"]
  /\ el' = [el EXCEPT ![w] = 0]
  /\ UNCHANGED <<system, worker_thread, spawnPending, startPc, launchPending, stopPending, stopping, engineVars,
                 slp, depth, reads, self, exc, sensorVars, envVars, classVars, ts_iso, ts_name, frame, obsVars, stopDuringWait>>

\* faulty variant of cooldown: an exception of the sensor read is not caught
\* and ends the thread
cooldown_ReadErrorEscapes(w) ==
  /\ Ready(w, "cool")
  /\ IF ~pinSetup
     THEN /\ pc' = [pc EXCEPT ![w] = "done"]
          /\ el' = [el EXCEPT ![w] = 0]
          /\ UNCHANGED slp
     ELSE IF beam /\ el[w] <= COOLDOWN_TIMEOUT_MS
     THEN /\ slp' = [slp EXCEPT ![w] = Sleep(COOLDOWN_POLL_MS)]
          /\ \E e \in Elapsed(el[w], COOLDOWN_POLL_MS,
                              COOLDOWN_TIMEOUT_MS + COOLDOWN_POLL_MS) :
               el' = [el EXCEPT ![w] = e]
          /\ UNCHANGED pc
     ELSE /\ slp' = [slp EXCEPT ![w] = Sleep(COOLDOWN_DELAY_MS)]
          /\ el' = [el EXCEPT ![w] = 0]
          /\ pc' = [pc EXCEPT ![w] = "cool_delay"]
  /\ UNCHANGED <<statusVars, ctlVars, engineVars, depth, reads, self, exc, payload,
                 sensorVars, envVars, classVars, ts_iso, ts_name, frame, obsVars, stopDuringWait>>

\* faulty variant of cooldown: the wait-for-clear loop has no timeout
cooldown_NoTimeout(w) ==
  /\ Ready(w, "cool")
  /\ IF pinSetup /\ beam
     THEN /\ slp' = [slp EXCEPT ![w] = Sleep(COOLDOWN_POLL_MS)]
          /\ \E e \in Elapsed(el[w], COOLDOWN_POLL_MS,
                              COOLDOWN_TIMEOUT_MS + COOLDOWN_POLL_MS) :
               el' = [el EXCEPT ![w] = e]
          /\ UNCHANGED pc
     ELSE /\ slp' = [slp EXCEPT ![w] = Sleep(COOLDOWN_DELAY_MS)]
          /\ el' = [el EXCEPT ![w] = 0]
          /\ pc' = [pc EXCEPT ![w] = "cool_delay"]
  /\ UNCHANGED <<statusVars, ctlVars, engineVars, depth, reads, self, exc, payload,
                 sensorVars, envVars, classVars, ts_iso, ts_name, frame, obsVars, stopDuringWait>>

\* lines 118-119 with _safe_ir_clear_wait, lines 47-54: one is_broken() read
\* of the wait-for-clear loop; when the loop ends (clear read, timeout, or an
\* exception of the read) the thread enters the fixed delay of line 119
cooldown(w) ==
  /\ Ready(w, "cool")
  /\ IF pinSetup /\ beam /\ el[w] <= COOLDOWN_TIMEOUT_MS
     THEN /\ slp' = [slp EXCEPT ![w] = Sleep(COOLDOWN_POLL_MS)]
          /\ \E e \in Elapsed(el[w], COOLDOWN_POLL_MS,
                              COOLDOWN_TIMEOUT_MS + COOLDOWN_POLL_MS) :
               el' = [el EXCEPT ![w] = e]
          /\ UNCHANGED pc
     ELSE /\ slp' = [slp EXCEPT ![w] = Sleep(COOLDOWN_DELAY_MS)]
          /\ el' = [el EXCEPT ![w] = 0]
          /\ pc' = [pc EXCEPT ![w] = "cool_delay"]
  /\ UNCHANGED <<statusVars, ctlVars, engineVars, depth, reads, self, exc, payload,
                 sensorVars, envVars, classVars, ts_iso, ts_name, frame, obsVars, stopDuringWait>>

\* line 119: the fixed delay is over and the loop goes back to line 64
cooldown_delay(w) ==
  /\ Ready(w, "cool_delay")
  /\ pc' = [pc EXCEPT ![w] = "check1"]
  /\ UNCHANGED <<statusVars, ctlVars, engineVars, slp, el, depth, reads, self, exc,
                 payload, sensorVars, envVars, classVars, ts_iso, ts_name, frame,
                 obsVars, stopDuringWait>>

\* ------------------------------------------------------------ sensor and time
\* the beam changes
BeamFlip ==
  /\ beam' = ~beam
  /\ brokenMs' = IF beam THEN brokenMs ELSE 0
  /\ trigCount' = IF beam THEN trigCount ELSE 0
  /\ UNCHANGED <<statusVars, ctlVars, engineVars, threadVars, lastTrigger, envVars,
                 classVars, ts_iso, ts_name, frame, obsVars, stopDuringWait>>

\* the thread is live and not waiting inside capture_array for ever
Running(w) == Live(w) /\ pc[w] # "pb_blocked"

\* the next instant at which something can happen: 5 ms on while a thread is
\* in a short sleep, else the end of the shortest sleep
Quantum ==
  LET m == CHOOSE x \in {slp[w] : w \in {v \in Workers : Running(v)}} :
             \A y \in {slp[w] : w \in {v \in Workers : Running(v)}} : x <= y
  IN  IF m <= CLEAR_POLL_MS THEN DEBOUNCE_POLL_MS ELSE m

\* time passes (exact timing): every running thread is asleep
Tick ==
  /\ exact
  /\ \E w \in Workers : Running(w)
  /\ \A w \in Workers : Running(w) => slp[w] > 0
  /\ slp' = [w \in Workers |-> IF Running(w) THEN slp[w] - Quantum ELSE slp[w]]
  /\ brokenMs' = IF beam THEN Min(DEBOUNCE_MS, brokenMs + Quantum) ELSE brokenMs
  /\ UNCHANGED <<statusVars, ctlVars, engineVars, pc, el, depth, reads, self, exc,
                 payload, beam, trigCount, lastTrigger, envVars, classVars, ts_iso,
                 ts_name, frame, obsVars, stopDuringWait>>

\* ------------------------------------------------------------ classifier check
Classify ==
  /\ cres = <<>>
  /\ cres' = <<classify_hsv(img)>>
  /\ UNCHANGED <<statusVars, ctlVars, engineVars, threadVars, sensorVars, envVars, img,
                 ts_iso, ts_name, frame, obsVars, stopDuringWait>>

\* ------------------------------------------------------------ specifications
\* nothing started; bags pipeline invocations are explored
InitStopped(bags) ==
  /\ status = NoStatus
  /\ system = 0
  /\ worker_thread = 0
  /\ lock = Free
  /\ spawnPending = 0
  /\ launchPending = 0
  /\ startPc = "none"
  /\ stopPending = 0
  /\ stopping = [e \in Engines |-> [i \in 1..Len(StopStages) |-> 0]]
  /\ camera = [e \in Engines |-> "none"]
  /\ sysRunning = [e \in Engines |-> FALSE]
  /\ total_bags = [e \in Engines |-> 0]
  /\ results_log = [e \in Engines |-> <<>>]
  /\ dayLog = <<>>
  /\ captures = {}
  /\ pinSetup = FALSE
  /\ pc = [w \in Workers |-> "idle"]
  /\ slp = [w \in Workers |-> 0]
  /\ el = [w \in Workers |-> 0]
  /\ depth = [w \in Workers |-> 0]
  /\ reads = [w \in Workers |-> 0]
  /\ self = [w \in Workers |-> 0]
  /\ exc = [w \in Workers |-> "None"]
  /\ payload = [w \in Workers |-> <<>>]
  /\ ts_iso = [w \in Workers |-> 0]
  /\ ts_name = [w \in Workers |-> 0]
  /\ frame = [w \in Workers |-> <<>>]
  /\ beam = FALSE
  /\ brokenMs = 0
  /\ trigCount = 0
  /\ lastTrigger = <<>>
  /\ now = 0
  /\ nameClock = [sec |-> 0, by |-> {}]
  /\ budget = bags
  /\ cres = <<>>
  /\ snapshot = <<>>
  /\ stopDuringWait = [w \in Workers |-> FALSE]

InitCommon == InitStopped(ImportBags)

\* the state after module import: nothing started
Init == InitCommon /\ exact = FALSE /\ img = <<>>

WorkerStep(w) ==
  \/ loop_check(w)
  \/ wait_clear(w)
  \/ debounce(w)
  \/ ir_error(w)
  \/ loop_recheck(w)
  \/ pb_begin(w)
  \/ pb_stamp(w)
  \/ pb_name(w)
  \/ pb_capture(w)
  \/ pb_write(w)
  \/ pb_append(w)
  \/ pb_log(w)
  \/ publish_ok(w)
  \/ publish_err(w)
  \/ push(w)
  \/ cooldown(w)
  \/ cooldown_delay(w)

Next ==
  \/ api_start
  \/ start_build
  \/ start_assign
  \/ start_camera
  \/ start_running
  \/ api_start_reset
  \/ api_start_spawn
  \/ api_start_launch
  \/ api_stop
  \/ api_stop_engine
  \/ BeamFlip
  \/ \E w \in Workers : WorkerStep(w)

\* requests, worker threads and the sensor interleave freely; sleeps may
\* overrun
Spec == Init /\ [][Next]_vars

\* the payload of the k-th successful detection of a session started at time 1
EarlierPayload(k) == PayloadOf(ResultOf(1 + k, k, classify_hsv(UniformImage(1))))

\* the state after one start request has been served (engine 1 constructed
\* and started, thread 1 at the top of worker_loop) and n detections have
\* succeeded since
InitSession(n, bags) ==
  /\ status = [running |-> TRUE, startedAt |-> 1,
               last |-> IF n = 0 THEN <<>> ELSE <<EarlierPayload(n)>>,
               history |-> [i \in 1..Min(n, MAX_HISTORY) |-> EarlierPayload(n - i + 1)],
               lastImagePath |-> n,
               lastError |-> "None"]
  /\ system = 1
  /\ worker_thread = 1
  /\ lock = Free
  /\ spawnPending = 0
  /\ launchPending = 0
  /\ startPc = "none"
  /\ stopPending = 0
  /\ stopping = [e \in Engines |-> [i \in 1..Len(StopStages) |-> 0]]
  /\ camera = [e \in Engines |-> IF e = 1 THEN "started" ELSE "none"]
  /\ sysRunning = [e \in Engines |-> e = 1]
  /\ total_bags = [e \in Engines |-> IF e = 1 THEN n ELSE 0]
  /\ results_log = [e \in Engines |-> IF e = 1 THEN [i \in 1..n |-> 1 + i] ELSE <<>>]
  /\ dayLog = [i \in 1..n |-> 1 + i]
  /\ captures = 1..n
  /\ pinSetup = TRUE
  /\ pc = [w \in Workers |-> IF w = 1 THEN "check1" ELSE "idle"]
  /\ slp = [w \in Workers |-> 0]
  /\ el = [w \in Workers |-> 0]
  /\ depth = [w \in Workers |-> 0]
  /\ reads = [w \in Workers |-> 0]
  /\ self = [w \in Workers |-> 0]
  /\ exc = [w \in Workers |-> "None"]
  /\ payload = [w \in Workers |-> <<>>]
  /\ ts_iso = [w \in Workers |-> 0]
  /\ ts_name = [w \in Workers |-> 0]
  /\ frame = [w \in Workers |-> <<>>]
  /\ beam = FALSE
  /\ brokenMs = 0
  /\ trigCount = 0
  /\ lastTrigger = <<>>
  /\ now = 1 + n
  /\ nameClock = [sec |-> n, by |-> IF n = 0 THEN {} ELSE {1}]
  /\ budget = bags
  /\ img = <<>>
  /\ cres = <<>>
  /\ snapshot = <<>>
  /\ stopDuringWait = [w \in Workers |-> FALSE]

\* one session with nominal sleeps: the sensor, the clock, the worker thread
\* and a stop request
InitTrigger == InitSession(0, MaxBags) /\ exact = TRUE

NextTrigger ==
  \/ api_stop
  \/ api_stop_engine
  \/ BeamFlip
  \/ Tick
  \/ \E w \in Workers : WorkerStep(w)

SpecTrigger == InitTrigger /\ [][NextTrigger]_vars

\* the same with progress, over fewer pipeline invocations: time passes
\* while every live thread sleeps, and a thread that can run is eventually
\* scheduled
InitCooldown == InitSession(0, CooldownBags) /\ exact = TRUE

SpecCooldown ==
  /\ InitCooldown
  /\ [][NextTrigger]_vars
  /\ WF_vars(Tick)
  /\ \A w \in Workers : WF_vars(WorkerStep(w))

\* one session that has already recorded any number of detections up to the
\* capacity of the history
InitSessions == \E n \in 0..MAX_HISTORY : InitSession(n, MaxBags) /\ exact = FALSE

NextSession ==
  \/ api_stop
  \/ api_stop_engine
  \/ BeamFlip
  \/ \E w \in Workers : WorkerStep(w)

SpecSession == InitSessions /\ [][NextSession]_vars

\* the same with progress: a thread that can run is eventually scheduled
\* (and so every sleep and every timed loop of it eventually ends)
SpecSessionLive ==
  /\ InitSessions
  /\ [][NextSession]_vars
  /\ \A w \in Workers : WF_vars(WorkerStep(w))

\* the state after a first session has recorded one detection and a stop
\* request has then been served to its end while the worker thread was
\* blocked in wait_for_bag: the flag is cleared, engine 1 is stopped, the
\* sensor channel is cleaned up, and the thread is still inside its wait
InitRestart(bags) ==
  /\ status = [running |-> FALSE, startedAt |-> 1, last |-> <<EarlierPayload(1)>>,
               history |-> <<EarlierPayload(1)>>, lastImagePath |-> 1,
               lastError |-> "None"]
  /\ system = 1
  /\ worker_thread = 1
  /\ lock = Free
  /\ spawnPending = 0
  /\ launchPending = 0
  /\ startPc = "none"
  /\ stopPending = 0
  /\ stopping = [e \in Engines |-> [i \in 1..Len(StopStages) |-> 0]]
  /\ camera = [e \in Engines |-> IF e = 1 THEN "stopped" ELSE "none"]
  /\ sysRunning = [e \in Engines |-> FALSE]
  /\ total_bags = [e \in Engines |-> IF e = 1 THEN 1 ELSE 0]
  /\ results_log = [e \in Engines |-> IF e = 1 THEN <<2>> ELSE <<>>]
  /\ dayLog = <<2>>
  /\ captures = {1}
  /\ pinSetup = FALSE
  /\ pc = [w \in Workers |-> IF w = 1 THEN "wfb_clear" ELSE "idle"]
  /\ slp = [w \in Workers |-> 0]
  /\ el = [w \in Workers |-> 0]
  /\ depth = [w \in Workers |-> 0]
  /\ reads = [w \in Workers |-> 0]
  /\ self = [w \in Workers |-> 0]
  /\ exc = [w \in Workers |-> "None"]
  /\ payload = [w \in Workers |-> <<>>]
  /\ ts_iso = [w \in Workers |-> 0]
  /\ ts_name = [w \in Workers |-> 0]
  /\ frame = [w \in Workers |-> <<>>]
  /\ beam = FALSE
  /\ brokenMs = 0
  /\ trigCount = 0
  /\ lastTrigger = <<>>
  /\ exact = FALSE
  /\ now = 2
  /\ nameClock = [sec |-> 1, by |-> {1}]
  /\ budget = bags
  /\ img = <<>>
  /\ cres = <<>>
  /\ snapshot = <<>>
  /\ stopDuringWait = [w \in Workers |-> w = 1]

\* the second session: start and stop requests, the old and the new worker
\* thread and the sensor interleave freely
SpecRestart == InitRestart(MaxBags) /\ [][Next]_vars

\* the same with a client that polls the status
InitStatus == InitRestart(StatusBags)

NextStatus ==
  \/ Next
  \/ api_status

SpecStatus == InitStatus /\ [][NextStatus]_vars

\* the classifier alone, on every image of Images
InitClassify == InitCommon /\ exact = FALSE /\ img \in Images

NextClassify == Classify

SpecClassify == InitClassify /\ [][NextClassify]_vars

\* ------------------------------------------------------------ claims
LiveWorkers == {w \in Workers : Live(w)}

\* C1: at every moment at most one worker_loop thread is live.
C1_OneWorkerLoop == Cardinality(LiveWorkers) <= 1

\* C2: a start request served while the status says running changes nothing:
\* no thread is launched or scheduled, no engine is constructed, and running,
\* startedAt, last, history and lastError stay as they were.
C2_StartWhileRunningNoop ==
  [][(api_start /\ status.running) =>
       UNCHANGED <<status, system, worker_thread, spawnPending, launchPending,
                   startPc, lock, pc, camera, sysRunning, pinSetup>>]_vars

\* C2 witness: a session is running with a live worker and a recorded
\* detection, and a start request can be served.
C2_Witness ==
  /\ status.running
  /\ lock = Free
  /\ LiveWorkers # {}
  /\ Len(status.history) > 0

\* C3: the history never holds more than MAX_HISTORY entries, and every
\* change of it by a push puts the published payload at index 0, shifts the
\* older entries down in order, and drops only what falls past MAX_HISTORY.
C3_HistoryBoundedNewestFirst ==
  /\ [](Len(status.history) <= MAX_HISTORY)
  /\ [][status.history' # status.history =>
          /\ Len(status.history') = Min(Len(status.history) + 1, MAX_HISTORY)
          /\ status.history'[1] = status.last'[1]
          /\ \A i \in 2..Len(status.history') :
               status.history'[i] = status.history[i - 1]]_vars

\* C3 witness: a full history whose newest entry is an ERROR payload and whose
\* oldest entries have been dropped.
C3_Witness ==
  /\ Len(status.history) = MAX_HISTORY
  /\ status.history[1].category = "ERROR"
  /\ status.history[MAX_HISTORY].timestamp > 2

\* C4: a failed pipeline invocation ends with last being an ERROR payload
\* (confidence 0, no image fields) that is also the newest history entry, with
\* lastError set; and the thread goes on to the cooldown, never to its end,
\* from any point of the pipeline or of the publication.
C4_FailureRecordedLoopContinues ==
  [][\A w \in Workers :
       /\ (pc[w] = "pub_err" /\ pc'[w] # "pub_err") =>
            /\ pc'[w] = "push"
            /\ payload'[w][1].category = "ERROR"
            /\ payload'[w][1].confidence = 0
            /\ payload'[w][1].image_path = 0
            /\ payload'[w][1].image_filename = 0
            /\ status.last' = payload'[w]
            /\ status.lastError' # "None"
       /\ (pc[w] = "push" /\ pc'[w] # "push") =>
            /\ pc'[w] = "cool"
            /\ status.history'[1] = payload[w][1]
            /\ status.last' = payload[w]
            /\ (payload[w][1].category = "ERROR" => status.lastError' # "None")
       /\ ((InPipeline(w)
             \/ pc[w] \in {"pub_ok", "pub_err", "push", "cool", "cool_delay"}) =>
             pc'[w] # "done")]_vars

\* C4 witness: a normal record is last, right after an ERROR record.
C4_Witness ==
  /\ Len(status.history) >= 2
  /\ status.history[2].category = "ERROR"
  /\ status.last = <<status.history[1]>>
  /\ status.last[1].category = "RECYCLING"
  /\ status.lastError = "None"

\* C5: a worker thread ends only at one of the two checks of the running
\* flag, with the flag false.
C5_ExitOnlyByFlag ==
  [][\A w \in Workers :
       (pc[w] # "done" /\ pc'[w] = "done") =>
          (pc[w] \in {"check1", "check2"} /\ ~status.running)]_vars

\* C5 witness: a thread has ended after a sensor error and a pipeline failure
\* were both caught.
C5_Witness ==
  \E w \in Workers :
    /\ pc[w] = "done"
    /\ status.lastError = "IR sensor error"
    /\ Len(status.history) > 0
    /\ status.history[1].category = "ERROR"

\* C6 as stated: no trigger is confirmed for a beam that was broken for less
\* than DEBOUNCE_MS and is clear again.
C6_ShortPulseNeverConfirmed ==
  lastTrigger # <<>> => ~lastTrigger[1].short

\* C6 amended: a trigger is confirmed only after the detecting read and every
\* poll of the debounce window read broken; a poll of the window that reads
\* clear sends the wait back to its first loop and confirms nothing.
C6_ClearPollRejects ==
  /\ [](lastTrigger # <<>> =>
          lastTrigger[1].reads >= 1 + DEBOUNCE_MS \div DEBOUNCE_POLL_MS)
  /\ [][\A w \in Workers :
          (Ready(w, "wfb_deb") /\ el[w] < DEBOUNCE_MS /\ pinSetup /\ ~beam
             /\ <<pc[w], slp[w], el[w]>>' # <<pc[w], slp[w], el[w]>>) =>
            (pc'[w] = "wfb_clear" /\ lastTrigger' = lastTrigger)]_vars

\* C6 witness: a broken pulse shorter than the window was sampled clear and
\* the wait is back in its first loop, with nothing confirmed.
C6_Witness ==
  \E w \in Workers :
    /\ pc[w] = "wfb_clear"
    /\ depth[w] >= 1
    /\ ~beam
    /\ brokenMs > 0
    /\ brokenMs < DEBOUNCE_MS
    /\ lastTrigger = <<>>

\* C7: at most one trigger is confirmed per continuous broken interval.
C7_OneTriggerPerInterval == trigCount <= 1

\* C8: once a stop request has completed, and until a start request takes
\* the lock, last, history and lastError do not change.
C8_FrozenAfterStop ==
  [][(~status.running /\ ~StopInProgress /\ lock # ByStart) =>
       /\ status.last' = status.last
       /\ status.history' = status.history
       /\ status.lastError' = status.lastError]_vars

\* the color the documented rule order gives for match counts b, g, k out
\* of n pixels and a sum of V of sv
RuleColor(b, g, k, sv, n) ==
  IF 100 * b > 30 * n THEN "blue"
  ELSE IF sv < 120 * n THEN "black"
  ELSE IF 100 * g > 20 * n THEN "green"
  ELSE IF b >= g /\ b >= k THEN "blue"
  ELSE IF g >= k THEN "green"
  ELSE "black"

\* C9: the color is that of the first matching rule (blue% > 30, mean V <
\* 120, green% > 20, else the highest match with ties in the order blue,
\* green, black) and the category is the fixed image of the color.
C9_FirstRuleWins ==
  cres # <<>> =>
    LET r == cres[1]
        color == RuleColor(r.color_matches["blue"], r.color_matches["green"],
                           r.color_matches["black"], r.v_sum, r.n)
    IN  /\ r.color = color
        /\ r.category = (CASE color = "blue" -> "RECYCLING"
                           [] color = "green" -> "COMPOST"
                           [] color = "black" -> "GARBAGE")

\* C9 witness: the fallback decided between blue and green at equal, nonzero
\* match percentages.
C9_Witness ==
  /\ cres # <<>>
  /\ cres[1].reason = "best"
  /\ cres[1].color_matches["blue"] > 0
  /\ cres[1].color_matches["blue"] = cres[1].color_matches["green"]
  /\ cres[1].color_matches["black"] <= cres[1].color_matches["green"]

\* C10: the confidence (numerator over 120 * n) is in [0, 95] when the blue,
\* low-brightness or green rule decided and in [0, 100] when the fallback
\* did.
C10_ConfidenceRange ==
  cres # <<>> =>
    LET r == cres[1]
        den == 120 * r.n
    IN  /\ r.confidence >= 0
        /\ r.reason \in {"blue", "low_v", "green"} => r.confidence <= 95 * den
        /\ r.reason = "best" => r.confidence <= 100 * den

\* C10 witness: every pixel is in the blue range and the confidence is capped
\* at 95.
C10_Witness ==
  /\ cres # <<>>
  /\ cres[1].reason = "blue"
  /\ cres[1].color_matches["blue"] = cres[1].n
  /\ cres[1].confidence = 95 * 120 * cres[1].n

\* C11: a thread that was inside wait_for_bag when a stop request took
\* effect leaves the re-check of the running flag, once the wait has
\* returned, only by ending: it does not invoke the pipeline and publishes
\* nothing.
C11_StopDuringWaitHonored ==
  [][\A w \in Workers :
       (pc[w] = "check2" /\ stopDuringWait[w] /\ pc'[w] # "check2") =>
          pc'[w] = "done"]_vars

\* the thread is past the call of process_bag and before the next check of
\* the running flag: in the pipeline, in the publication or in the cooldown,
\* its fixed delay included
Executing(w) ==
  InPipeline(w) \/ pc[w] \in {"pub_ok", "pub_err", "push", "cool", "cool_delay"}

C13_HandlesOwnedWhileInUse ==
  \A w \in Workers :
    /\ InWait(w) => pinSetup
    /\ pc[w] \in {"pb_stamp", "pb_name", "pb_capture"} => camera[self[w]] = "started"

\* a status record that no publication has left half applied: last is None
\* exactly when the history is empty, and otherwise last is the newest entry
Settled(st) ==
  /\ (st.last = <<>>) = (st.history = <<>>)
  /\ st.last # <<>> => st.last[1] = st.history[1]

\* C14: the status record changes only in a step of the holder of the lock
\* (a step that takes the free lock, works under it, or releases it), a
\* thread inside a publication holds the lock, and no status response shows a
\* publication half applied (last set, history not yet pushed).
C14_StatusUnderLock ==
  /\ [][status' # status => (lock = Free \/ lock' = Free)]_vars
  /\ [](\A w \in Workers : pc[w] = "push" => lock = ByWorker(w))
  /\ [](startPc # "none" => lock = ByStart)
  /\ [](snapshot # <<>> => Settled(snapshot[1]))

\* C14 witness: in the second session a thread is in the middle of a
\* publication (last set, the history not yet pushed) and the last response,
\* taken before the start request reset the status, shows the earlier
\* detection.
C14_Witness ==
  /\ lock # Free
  /\ system = 2
  /\ ~Settled(status)
  /\ snapshot # <<>>
  /\ snapshot[1].last # <<>>
  /\ snapshot[1].last # status.last

\* C15: an invocation of process_bag that raises leaves no record of its own
\* in the in-memory result log, and one that returns has put exactly one
\* record into it and one block into the day log.  A record is known by its
\* timestamp.
C15_LoggedIffReturned ==
  [][\A w \in Workers :
       /\ (InPipeline(w) /\ pc'[w] = "pub_err") =>
            \A i \in 1..Len(results_log'[self[w]]) :
              results_log'[self[w]][i] # ts_iso[w]
       /\ (InPipeline(w) /\ pc'[w] = "pub_ok") =>
            /\ Cardinality({i \in 1..Len(results_log'[self[w]]) :
                              results_log'[self[w]][i] = ts_iso[w]}) = 1
            /\ Cardinality({i \in 1..Len(dayLog') : dayLog'[i] = ts_iso[w]}) = 1]_vars

\* C16: an exception of a sensor read inside wait_for_bag takes the thread
\* to the handler and nowhere else; the handler sets lastError to the sensor
\* error message, leaves every other field of the status as it was, starts
\* no pipeline invocation, and takes the thread back to the first check of
\* the running flag.
C16_SensorErrorOnlyLastError ==
  [][\A w \in Workers :
       /\ (InWait(w) /\ ~pinSetup /\ ~InWait(w)') => pc'[w] \in {"ir_exc", "check2"}
       /\ (pc[w] = "ir_exc" /\ pc'[w] # "ir_exc") =>
            /\ status' = [status EXCEPT !.lastError = "IR sensor error"]
            /\ pc'[w] = "check1"
            /\ total_bags' = total_bags
            /\ budget' = budget
            /\ results_log' = results_log]_vars

\* C16 witness: a sensor error is recorded next to an intact last detection,
\* and the thread is back at the first check.
C16_Witness ==
  \E w \in Workers :
    /\ pc[w] = "check1"
    /\ status.lastError = "IR sensor error"
    /\ status.last # <<>>
    /\ status.last[1].category = "RECYCLING"
    /\ status.history[1] = status.last[1]

\* C17: the wait for a clear beam of the cooldown always ends: a thread in
\* it eventually reaches the first check of the running flag; it never polls
\* past the timeout plus one poll interval; a read that raises, a clear read
\* and the timeout each end it at once; and it is always left through the
\* fixed delay to the first check.
C17_CooldownTerminates ==
  /\ \A w \in Workers : (pc[w] = "cool") ~> (pc[w] = "check1")
  /\ [](\A w \in Workers :
          pc[w] = "cool" => el[w] <= COOLDOWN_TIMEOUT_MS + COOLDOWN_POLL_MS)
  /\ [][\A w \in Workers :
          /\ (pc[w] = "cool" /\ pc'[w] # "cool") =>
               (pc'[w] = "cool_delay" /\ slp'[w] = COOLDOWN_DELAY_MS)
          /\ (pc[w] = "cool_delay" /\ pc'[w] # "cool_delay") => pc'[w] = "check1"
          /\ (Ready(w, "cool") /\ (~pinSetup \/ ~beam \/ el[w] > COOLDOWN_TIMEOUT_MS)
                /\ <<pc[w], slp[w], el[w]>>' # <<pc[w], slp[w], el[w]>>) =>
               pc'[w] = "cool_delay"]_vars

\* C17 witness: the beam is still broken and the timeout of the wait for
\* clear has elapsed.
C17_Witness ==
  \E w \in Workers :
    /\ Ready(w, "cool")
    /\ pinSetup
    /\ beam
    /\ el[w] > COOLDOWN_TIMEOUT_MS

\* C18: the call depth of the blocking wait stays constant: a clear read
\* inside the debounce window never leaves the thread in a nested call of
\* wait_for_bag.
C18_WaitDepthConstant == \A w \in Workers : depth[w] = 0

\* C19: whenever the lock is free, last is None exactly when the history is
\* empty, and otherwise last is the newest history entry.
C19_LastIsNewestEntry == lock = Free => Settled(status)

\* C19 witness: a second session, begun after a first one that processed a
\* bag, has published one payload: last and the only history entry are it.
C19_Witness ==
  /\ lock = Free
  /\ system = 2
  /\ total_bags[1] > 0
  /\ Len(status.history) = 1
  /\ status.last = <<status.history[1]>>
  /\ status.startedAt > 1
  /\ status.last[1].timestamp > status.startedAt

\* C20: last and every history entry come from a pipeline invocation that
\* began after the start request that last reset the status.  The timestamp
\* of a payload is taken inside its invocation, so a payload older than
\* startedAt comes from an invocation begun before that start.
C20_OnlyThisSession ==
  /\ status.last # <<>> => status.last[1].timestamp > status.startedAt
  /\ \A i \in 1..Len(status.history) :
       status.history[i].timestamp > status.startedAt

====
